---- MODULE Spec2Model ----
(***************************************************************************)
(* Model of backend/app/main.py (Suno: YouTube to MP3 conversion API).      *)
(*                                                                         *)
(* Strings are sequences of one-character strings, so that the regular     *)
(* expressions, the path functions and the identifier formatting are       *)
(* computed character by character as the program computes them.           *)
(* Time is counted in hours; a file's age is (now - last-modified time).   *)
(* The rate limiter, CORS and the HTTP framework's routing are outside the *)
(* model: an action is one request that has reached its handler.           *)
(***************************************************************************)
EXTENDS Integers, Sequences, FiniteSets

VARIABLES files, jobs, rejected, sweeper, hours, resp, lastServed

vars == <<files, jobs, rejected, sweeper, hours, resp, lastServed>>

(***************************************************************************)
(* Bounds of the model.                                                    *)
(***************************************************************************)
\* number of POST /convert requests that generate an identifier
MaxConverts == 1
\* hours whose passage the model tracks: after them the sweeper goes on
\* sweeping, and the ages it reads no longer grow
MaxHours == 2

(***************************************************************************)
(* Configuration (main.py:57-61).                                          *)
(***************************************************************************)
MAX_FILE_SIZE_MB == 100
FILE_RETENTION_HOURS == 24
SWEEP_INTERVAL_HOURS == 1
FILE_ID_LENGTH == 36
VALIDATION_ERROR_STATUS == 422

\* ages above the retention window are all alike to the sweeper
AgeCap == FILE_RETENTION_HOURS + 1

\* file_size_mb = size / (1024 * 1024); file_size_mb > MAX_FILE_SIZE_MB (main.py:106-107)
ExceedsMaxSize(size) == size > MAX_FILE_SIZE_MB * 1024 * 1024

\* free < MAX_FILE_SIZE_MB * 1024 * 1024 * 2 (main.py:128)
StorageThreshold == MAX_FILE_SIZE_MB * 1024 * 1024 * 2

\* a plausible slip: rejecting a free space equal to the threshold as well
InsufficientStorageInclusive(free) == free <= StorageThreshold

InsufficientStorage(free) == free < StorageThreshold

\* a plausible slip: deleting at exactly the retention window
ExpiredInclusive(age) == age >= FILE_RETENTION_HOURS

\* now - file_modified > timedelta(hours=FILE_RETENTION_HOURS) (main.py:73)
Expired(age) == age > FILE_RETENTION_HOURS

(***************************************************************************)
(* Characters and string helpers.                                          *)
(***************************************************************************)
LF == "\n"
Digits == {"0","1","2","3","4","5","6","7","8","9"}
Lower == {"a","b","c","d","e","f","g","h","i","j","k","l","m",
          "n","o","p","q","r","s","t","u","v","w","x","y","z"}
Upper == {"A","B","C","D","E","F","G","H","I","J","K","L","M",
          "N","O","P","Q","R","S","T","U","V","W","X","Y","Z"}
\* the character class \s, as far as the inputs of the model use it
Whitespace == {" ", "\t", LF, "\r"}

StartsWith(s, p) == Len(s) >= Len(p) /\ SubSeq(s, 1, Len(p)) = p

EndsWith(s, p) == Len(s) >= Len(p) /\ SubSeq(s, Len(s) - Len(p) + 1, Len(s)) = p

\* Python's "$" without re.MULTILINE, after k characters of s were consumed:
\* the end of the string, or just before a newline that ends the string.
DollarAt(s, k) == k = Len(s) \/ (k = Len(s) - 1 /\ s[Len(s)] = LF)

(***************************************************************************)
(* ConvertRequest validators (main.py:40-55).                              *)
(***************************************************************************)
SCHEME_HTTP == <<"h","t","t","p",":","/","/">>
SCHEME_HTTPS == <<"h","t","t","p","s",":","/","/">>
WWW == <<"w","w","w",".">>
HOST_WATCH == <<"y","o","u","t","u","b","e",".","c","o","m","/","w","a","t","c","h","?","v","=">>
HOST_SHORT == <<"y","o","u","t","u",".","b","e","/">>

\* [A-Za-z0-9_-]
VideoIdChars == Lower \cup Upper \cup Digits \cup {"_", "-"}

\* ([\?&][^&\s]*)*$ matched from position k (k characters consumed)
RECURSIVE ParamGroupsMatch(_, _)
ParamGroupsMatch(v, k) ==
    \/ DollarAt(v, k)
    \/ /\ k < Len(v)
       /\ v[k + 1] \in {"?", "&"}
       /\ \E m \in (k + 1)..Len(v) :
             /\ \A i \in (k + 2)..m : v[i] \notin ({"&"} \cup Whitespace)
             /\ ParamGroupsMatch(v, m)

\* ^(https?://)?(www\.)?(youtube\.com/watch\?v=|youtu\.be/)[A-Za-z0-9_-]+([\?&][^&\s]*)*$
YoutubeRegexMatch(v) ==
    \E scheme \in {<<>>, SCHEME_HTTP, SCHEME_HTTPS} :
    \E www \in {<<>>, WWW} :
    \E host \in {HOST_WATCH, HOST_SHORT} :
        LET pre == scheme \o www \o host
        IN  /\ StartsWith(v, pre)
            /\ \E j \in (Len(pre) + 1)..Len(v) :
                  /\ \A i \in (Len(pre) + 1)..j : v[i] \in VideoIdChars
                  /\ ParamGroupsMatch(v, j)

validate_youtube_url(v) == YoutubeRegexMatch(v)

QUALITY_TIERS == {"high", "medium", "low"}

validate_quality(v) == v \in QUALITY_TIERS

(***************************************************************************)
(* Identifier generation: str(uuid.uuid4()) (main.py:123).  The random     *)
(* source r gives the hexadecimal digits; the version digit is 4 and the    *)
(* variant digit is one of 8, 9, a, b; the text is 8-4-4-4-12.              *)
(***************************************************************************)
HexLower == Digits \cup {"a","b","c","d","e","f"}

UuidHex(r) == [i \in 1..32 |-> IF i = 13 THEN "4"
                                ELSE IF i = 17 THEN r.variant
                                ELSE r.fill]

\* a plausible slip: uuid4().hex, the 32 digits without hyphens
UuidTextNoHyphens(hex) == hex

\* UUID.__str__: the 32 digits in groups of 8, 4, 4, 4 and 12
UuidText(hex) == SubSeq(hex, 1, 8) \o <<"-">> \o SubSeq(hex, 9, 12) \o <<"-">>
                 \o SubSeq(hex, 13, 16) \o <<"-">> \o SubSeq(hex, 17, 20) \o <<"-">>
                 \o SubSeq(hex, 21, 32)

Uuid4Str(r) == UuidText(UuidHex(r))

\* the outcomes of the random source the model draws from, one per request
RandomOutcomes == <<[fill |-> "0", variant |-> "8"],
                    [fill |-> "f", variant |-> "b"],
                    [fill |-> "a", variant |-> "9"],
                    [fill |-> "5", variant |-> "a"]>>

RandomSources == {RandomOutcomes[i] : i \in 1..MaxConverts}

(***************************************************************************)
(* Paths (main.py:59, 124, 160-169).                                       *)
(***************************************************************************)
DOWNLOAD_FOLDER == <<"/","a","p","p","/","d","o","w","n","l","o","a","d","s">>
MP3 == <<".","m","p","3">>
ALLOWED_EXTENSIONS == {MP3}
DOWNLOAD_URL_PREFIX == <<"/","d","o","w","n","l","o","a","d","/">>

\* os.path.join(a, b): an absolute b replaces a
PathJoin(a, b) == IF Len(b) > 0 /\ b[1] = "/" THEN b ELSE a \o <<"/">> \o b

FileName(file_id) == file_id \o MP3

\* os.path.realpath(path): the storage directory is canonical, so only an
\* entry of the directory that is a symbolic link resolves elsewhere
RealPath(fs, path) ==
    IF /\ StartsWith(path, DOWNLOAD_FOLDER \o <<"/">>)
       /\ SubSeq(path, Len(DOWNLOAD_FOLDER) + 2, Len(path)) \in DOMAIN fs
       /\ fs[SubSeq(path, Len(DOWNLOAD_FOLDER) + 2, Len(path))].kind = "link"
    THEN fs[SubSeq(path, Len(DOWNLOAD_FOLDER) + 2, Len(path))].target
    ELSE path

\* re.match(r'^[0-9a-f-]{36}$', file_id) (main.py:156)
FileIdRegexMatch(file_id) ==
    /\ Len(file_id) >= FILE_ID_LENGTH
    /\ \A i \in 1..FILE_ID_LENGTH : file_id[i] \in HexLower \cup {"-"}
    /\ DollarAt(file_id, FILE_ID_LENGTH)

(***************************************************************************)
(* Inputs of the requests and of the environment.                          *)
(***************************************************************************)
UrlWatch == <<"h","t","t","p","s",":","/","/","w","w","w",".","y","o","u","t","u","b","e",".","c","o","m","/","w","a","t","c","h","?","v","=","d","Q","w","4","w","9","W","g","X","c","Q">>
UrlShort == <<"y","o","u","t","u",".","b","e","/","a","_","B","-","1","?","t","=","1","0","&","x","=","y">>
UrlTrailingLF == <<"h","t","t","p",":","/","/","y","o","u","t","u",".","b","e","/","a","b","c","\n">>
UrlNotAUrl == <<"n","o","t","-","a","-","u","r","l">>
UrlOtherHost == <<"h","t","t","p","s",":","/","/","e","x","a","m","p","l","e",".","c","o","m","/","w","a","t","c","h","?","v","=","x">>

Urls == {UrlWatch, UrlShort, UrlTrailingLF, UrlNotAUrl, UrlOtherHost}

Qualities == {"high", "medium", "low", "ultra"}

\* the validators' verdicts on the inputs of the model
UrlValid == [v \in Urls |-> validate_youtube_url(v)]

QualityValid == [v \in Qualities |-> validate_quality(v)]

\* the free space shutil.disk_usage may report (main.py:127)
FreeSpaces == {StorageThreshold - 1, StorageThreshold, StorageThreshold + 1}

\* a name of identifier shape made of one digit (an entry left in the directory)
StemOf(d) == UuidText([i \in 1..32 |-> d])

TARGET_OUTSIDE == <<"/","e","t","c","/","p","a","s","s","w","d">>
TARGET_SIBLING == <<"/","a","p","p","/","d","o","w","n","l","o","a","d","s","-","o","l","d","/","a",".","m","p","3">>

RegularFile(age, content, size, readable) ==
    [kind |-> "file", target |-> <<>>, age |-> age, content |-> content,
     size |-> size, readable |-> readable]

SymLink(target, age, content) ==
    [kind |-> "link", target |-> target, age |-> age, content |-> content,
     size |-> 1, readable |-> TRUE]

\* what os.makedirs(DOWNLOAD_FOLDER, exist_ok=True) may find already there
PreexistingEntries ==
    [n \in {FileName(StemOf("1")), FileName(StemOf("2")),
            FileName(StemOf("5")), FileName(StemOf("6"))} |->
        IF n = FileName(StemOf("1"))
            THEN RegularFile(FILE_RETENTION_HOURS + 1, "old", 1, TRUE)
        ELSE IF n = FileName(StemOf("2"))
            THEN RegularFile(FILE_RETENTION_HOURS, "edge", 1, FALSE)
        ELSE IF n = FileName(StemOf("5"))
            THEN SymLink(TARGET_OUTSIDE, 0, "outside")
        ELSE SymLink(TARGET_SIBLING, 0, "sibling")]

BaseToken == Uuid4Str([fill |-> "0", variant |-> "8"])

\* tokens that are not of the identifier's shape: too short, a trailing
\* newline, a path traversal of the right length
MalformedTokens ==
    {SubSeq(BaseToken, 1, Len(BaseToken) - 1),
     BaseToken \o <<LF>>,
     <<".", ".", "/">> \o SubSeq(BaseToken, 4, Len(BaseToken))}

\* the file name without its extension
Stem(n) == SubSeq(n, 1, Len(n) - Len(MP3))

\* the tokens a client asks for: the identifiers the service may issue, the
\* names present in the directory fs, and the malformed ones
DownloadTokens(fs) ==
    {Uuid4Str(r) : r \in RandomSources}
    \cup {Stem(n) : n \in DOMAIN fs}
    \cup MalformedTokens

\* the directories the service may find at start-up
InitialDirectories ==
    {{}, {FileName(StemOf("5"))}, {FileName(StemOf("6"))},
     {FileName(StemOf("1")), FileName(StemOf("2"))}}

\* what the external extractor may have written at the output path: the
\* stream up to the maximum size exactly, or one byte more
ExtractorOutputs == {[content |-> "stream", size |-> MAX_FILE_SIZE_MB * 1024 * 1024],
                     [content |-> "stream+", size |-> MAX_FILE_SIZE_MB * 1024 * 1024 + 1]}

(***************************************************************************)
(* State.                                                                  *)
(*   files      the storage directory: file name -> entry                  *)
(*   jobs       the background tasks: identifier -> [pc, attempts]         *)
(*   rejected   identifiers generated by requests answered 507             *)
(*   sweeper    the cleanup_old_files task                                 *)
(*   hours      hours passed since start-up, up to MaxHours                *)
(*   resp       the response of the handler step just taken, if any        *)
(*   lastServed the file and content of the latest successful download     *)
(***************************************************************************)
NoResp == [op |-> "none"]
NoServed == [name |-> <<>>, content |-> ""]
NoRemoval == [name |-> <<>>, age |-> 0]

Restrict(f, S) == [x \in S |-> f[x]]

Put(fs, n, entry) == [x \in DOMAIN fs \cup {n} |-> IF x = n THEN entry ELSE fs[x]]

\* os.remove(path) on an entry that exists
Remove(fs, n) == Restrict(fs, DOMAIN fs \ {n})

Init ==
    /\ \E S \in InitialDirectories : files = Restrict(PreexistingEntries, S)
    /\ jobs = <<>>
    /\ rejected = {}
    /\ sweeper = [pc |-> "start", todo |-> {}, cur |-> <<>>, curAge |-> 0,
                  failed |-> FALSE, oldAtStart |-> {}, removed |-> NoRemoval]
    /\ hours = 0
    /\ resp = NoResp
    /\ lastServed = NoServed

Issued == DOMAIN jobs \cup rejected

\* The handlers and the sweeper are coroutines of one event loop, and the
\* sweeper has no await between its datetime.now() and its sleep
\* (main.py:69-77): a handler runs only while the sweeper is suspended.
\* download_audio is a plain function, which the framework runs in a worker
\* thread: its steps interleave with everything.
SweeperSuspended == sweeper.pc \notin {"start", "scan", "remove", "pause"}

(***************************************************************************)
(* POST /convert (main.py:40-55, 118-150).                                 *)
(***************************************************************************)
Convert(youtube_url, quality) ==
    /\ SweeperSuspended
    /\ UNCHANGED <<files, sweeper, hours, lastServed>>
    /\ IF ~(UrlValid[youtube_url] /\ QualityValid[quality])
       THEN \* the request body fails validation before convert() is called
            /\ resp' = [op |-> "convert", status |-> VALIDATION_ERROR_STATUS,
                        inputOK |-> FALSE,
                        free |-> 0, file_id |-> <<>>, download_url |-> <<>>,
                        body_status |-> "", scheduled |-> FALSE]
            /\ UNCHANGED <<jobs, rejected>>
       ELSE \* uuid4 is taken to give an identifier not given or present before
            /\ Cardinality(Issued) < MaxConverts
            /\ \E r \in RandomSources, free \in FreeSpaces :
                  LET file_id == Uuid4Str(r)
                  IN  /\ file_id \notin Issued
                      /\ FileName(file_id) \notin DOMAIN files
                      /\ IF InsufficientStorage(free)
                         THEN /\ resp' = [op |-> "convert", status |-> 507,
                                          inputOK |-> TRUE,
                                          free |-> free, file_id |-> file_id,
                                          download_url |-> <<>>,
                                          body_status |-> "", scheduled |-> FALSE]
                              /\ rejected' = rejected \cup {file_id}
                              /\ UNCHANGED jobs
                         ELSE /\ jobs' = Put(jobs, file_id,
                                             [pc |-> "queued", attempts |-> 0])
                              /\ resp' = [op |-> "convert", status |-> 200,
                                          inputOK |-> TRUE,
                                          free |-> free, file_id |-> file_id,
                                          download_url |-> DOWNLOAD_URL_PREFIX \o file_id,
                                          body_status |-> "processing",
                                          scheduled |-> TRUE]
                              /\ UNCHANGED rejected

(***************************************************************************)
(* The background task download_audio (main.py:83-116).                    *)
(***************************************************************************)
\* the task starts: subprocess.run launches the extractor, or fails to
JobStart(file_id, launched) ==
    /\ file_id \in DOMAIN jobs
    /\ jobs[file_id].pc = "queued"
    /\ jobs' = [jobs EXCEPT ![file_id] =
                   [pc |-> IF launched THEN "running" ELSE "failed",
                    attempts |-> @.attempts + 1]]
    /\ resp' = NoResp
    /\ UNCHANGED <<files, rejected, sweeper, hours, lastServed>>

\* the extractor, while it runs, writes (or rewrites) the output path
ExtractorWrite(file_id, out) ==
    /\ file_id \in DOMAIN jobs
    /\ jobs[file_id].pc = "running"
    /\ files' = Put(files, FileName(file_id),
                    RegularFile(0, out.content, out.size, TRUE))
    /\ resp' = NoResp
    /\ UNCHANGED <<jobs, rejected, sweeper, hours, lastServed>>

\* a plausible slip: leaving the output in place
KeepOutput(fs, n) == fs

\* if os.path.exists(filename): os.remove(filename) (main.py:108, 114-115)
DiscardOutput(fs, n) == IF n \in DOMAIN fs THEN Remove(fs, n) ELSE fs

\* subprocess.run returns and the task ends (main.py:102-116).  With
\* check=True a non-zero exit raises CalledProcessError: the handler deletes
\* the output and raises.  After a zero exit the output is verified: a
\* missing file raises, a file above the maximum is deleted and raises.
JobFinish(file_id, exit_ok) ==
    /\ file_id \in DOMAIN jobs
    /\ jobs[file_id].pc = "running"
    /\ IF ~exit_ok
       THEN /\ files' = DiscardOutput(files, FileName(file_id))
            /\ jobs' = [jobs EXCEPT ![file_id].pc = "failed"]
       ELSE IF FileName(file_id) \in DOMAIN files
       THEN IF ExceedsMaxSize(files[FileName(file_id)].size)
            THEN /\ files' = DiscardOutput(files, FileName(file_id))
                 /\ jobs' = [jobs EXCEPT ![file_id].pc = "failed"]
            ELSE /\ jobs' = [jobs EXCEPT ![file_id].pc = "done"]
                 /\ UNCHANGED files
       ELSE /\ jobs' = [jobs EXCEPT ![file_id].pc = "failed"]
            /\ UNCHANGED files
    /\ resp' = NoResp
    /\ UNCHANGED <<rejected, sweeper, hours, lastServed>>

(***************************************************************************)
(* GET /download/{file_id} (main.py:152-197).  fsops counts the file-system *)
(* calls made before the response: realpath (twice), exists, access, and    *)
(* the opening of the file by FileResponse.                                 *)
(***************************************************************************)
DownloadResponse(file_id, status, content, fsops) ==
    [op |-> "download", status |-> status, file_id |-> file_id,
     content |-> content, fsops |-> fsops]

\* raise HTTPException(403) inside try ... except Exception: raise
\* HTTPException(400): HTTPException is an Exception, so the 403 is caught
\* and replaced (main.py:167-172)
EscapeStatus == 400

Download(file_id) ==
    LET filename == FileName(file_id)
        path == PathJoin(DOWNLOAD_FOLDER, filename)
        real_path == RealPath(files, path)
    IN  /\ SweeperSuspended
        /\ UNCHANGED <<files, jobs, rejected, sweeper, hours>>
        /\ IF ~FileIdRegexMatch(file_id)
           THEN /\ resp' = DownloadResponse(file_id, 400, "", 0)
                /\ UNCHANGED lastServed
           ELSE IF ~(\E ext \in ALLOWED_EXTENSIONS : EndsWith(filename, ext))
           THEN /\ resp' = DownloadResponse(file_id, 400, "", 0)
                /\ UNCHANGED lastServed
           ELSE IF ~StartsWith(real_path, RealPath(files, DOWNLOAD_FOLDER))
           THEN /\ resp' = DownloadResponse(file_id, EscapeStatus, "", 2)
                /\ UNCHANGED lastServed
           ELSE IF filename \notin DOMAIN files
           THEN /\ resp' = DownloadResponse(file_id, 404, "", 3)
                /\ UNCHANGED lastServed
           ELSE IF ~files[filename].readable
           THEN /\ resp' = DownloadResponse(file_id, 500, "", 4)
                /\ UNCHANGED lastServed
           ELSE /\ resp' = DownloadResponse(file_id, 200, files[filename].content, 5)
                /\ lastServed' = [name |-> filename,
                                  content |-> files[filename].content]

(***************************************************************************)
(* The retention sweeper cleanup_old_files (main.py:66-77).                *)
(***************************************************************************)
Idle(pc) == [pc |-> pc, todo |-> {}, cur |-> <<>>, curAge |-> 0,
             failed |-> FALSE, oldAtStart |-> {}, removed |-> NoRemoval]

\* a plausible slip: the exception leaves the loop and ends the task
SweepErrorEndsTask == "dead"

\* except Exception: print(...), then the sleep of the same iteration
SweepAfterError == "pause"

SweepRaise == [sweeper EXCEPT !.pc = SweepAfterError, !.todo = {}, !.cur = <<>>,
                              !.curAge = 0, !.failed = TRUE]

\* now = datetime.now(); os.listdir(DOWNLOAD_FOLDER) (main.py:69-70)
SweepBegin ==
    /\ sweeper.pc = "start"
    /\ sweeper' = [sweeper EXCEPT
                      !.pc = "scan",
                      !.todo = DOMAIN files,
                      !.oldAtStart = {n \in DOMAIN files : Expired(files[n].age)}]
    /\ resp' = NoResp
    /\ UNCHANGED <<files, jobs, rejected, hours, lastServed>>

\* one iteration of the for loop up to the test (main.py:71-73); the
\* directory listing is in no particular order
SweepExamine(n) ==
    /\ sweeper.pc = "scan"
    /\ n \in sweeper.todo
    /\ IF n \notin DOMAIN files
       THEN sweeper' = SweepRaise
       ELSE IF Expired(files[n].age)
       THEN sweeper' = [sweeper EXCEPT !.pc = "remove", !.cur = n,
                                       !.curAge = files[n].age]
       ELSE sweeper' = [sweeper EXCEPT !.todo = @ \ {n}]
    /\ resp' = NoResp
    /\ UNCHANGED <<files, jobs, rejected, hours, lastServed>>

\* os.remove(filepath) (main.py:74)
SweepRemove ==
    /\ sweeper.pc = "remove"
    /\ IF sweeper.cur \notin DOMAIN files
       THEN /\ sweeper' = SweepRaise
            /\ UNCHANGED <<files, lastServed>>
       ELSE /\ files' = Remove(files, sweeper.cur)
            /\ sweeper' = [sweeper EXCEPT
                              !.pc = "scan", !.todo = @ \ {sweeper.cur},
                              !.cur = <<>>, !.curAge = 0,
                              !.removed = [name |-> sweeper.cur,
                                           age |-> sweeper.curAge]]
            /\ lastServed' = IF lastServed.name = sweeper.cur
                             THEN NoServed ELSE lastServed
    /\ resp' = NoResp
    /\ UNCHANGED <<jobs, rejected, hours>>

\* the for loop is exhausted
SweepEnd ==
    /\ sweeper.pc = "scan"
    /\ sweeper.todo = {}
    /\ sweeper' = [sweeper EXCEPT !.pc = "pause"]
    /\ resp' = NoResp
    /\ UNCHANGED <<files, jobs, rejected, hours, lastServed>>

\* the task reaches await asyncio.sleep(3600) and is suspended (main.py:77);
\* what the ended sweep did is no longer part of the state
SweepSuspend ==
    /\ sweeper.pc = "pause"
    /\ sweeper' = Idle("sleep")
    /\ resp' = NoResp
    /\ UNCHANGED <<files, jobs, rejected, hours, lastServed>>

Min(a, b) == IF a < b THEN a ELSE b

Aged(fs) == [n \in DOMAIN fs |->
                [fs[n] EXCEPT !.age = Min(@ + SWEEP_INTERVAL_HOURS, AgeCap)]]

\* asyncio.sleep(3600) returns (main.py:77): an hour has passed, the loop repeats
SweepSleep ==
    /\ sweeper.pc = "sleep"
    /\ sweeper' = Idle("start")
    /\ IF hours < MaxHours
       THEN /\ hours' = hours + SWEEP_INTERVAL_HOURS
            /\ files' = Aged(files)
       ELSE UNCHANGED <<hours, files>>
    /\ resp' = NoResp
    /\ UNCHANGED <<jobs, rejected, lastServed>>

(***************************************************************************)
(* The system.                                                             *)
(***************************************************************************)
ConvertRequest ==
    \E youtube_url \in Urls, quality \in Qualities :
        Convert(youtube_url, quality)

DownloadRequest == \E file_id \in DownloadTokens(files) : Download(file_id)

BackgroundTask ==
    \E file_id \in DOMAIN jobs :
        \/ \E launched \in BOOLEAN : JobStart(file_id, launched)
        \/ \E out \in ExtractorOutputs : ExtractorWrite(file_id, out)
        \/ \E exit_ok \in BOOLEAN : JobFinish(file_id, exit_ok)

Sweeper ==
    \/ SweepBegin
    \/ \E n \in sweeper.todo : SweepExamine(n)
    \/ SweepRemove
    \/ SweepEnd
    \/ SweepSuspend
    \/ SweepSleep

Next == ConvertRequest \/ DownloadRequest \/ BackgroundTask \/ Sweeper

Spec == Init /\ [][Next]_vars

\* the event loop runs the sweeper task whenever it is runnable
FairSpec == Spec /\ WF_vars(Sweeper)

(***************************************************************************)
(* Properties.                                                             *)
(***************************************************************************)
\* inputOK: the URL matched the pattern and the quality was a known tier
ValidConvert == resp.op = "convert" /\ resp.inputOK

\* the shape of a generated identifier, as the specification words it:
\* exactly 36 characters, each a lower-case hexadecimal digit or a hyphen
IdentifierShape(token) ==
    /\ Len(token) = 36
    /\ \A i \in 1..Len(token) : token[i] \in HexLower \cup {"-"}

\* C1: a POST /convert with a URL matching the pattern, a quality among
\* high, medium, low and a free space of at least twice the maximum size is
\* answered 200 with status "processing" and download_url "/download/" followed
\* by a 36-character token that the format check of GET /download accepts;
\* and no download of an identifier that convert issued is answered 400.
C1_ConvertIssuesDownloadableToken ==
    /\ (ValidConvert /\ resp.free >= 2 * (MAX_FILE_SIZE_MB * 1024 * 1024))
          => /\ resp.status = 200
             /\ resp.body_status = "processing"
             /\ StartsWith(resp.download_url, DOWNLOAD_URL_PREFIX)
             /\ LET token == SubSeq(resp.download_url, Len(DOWNLOAD_URL_PREFIX) + 1,
                                    Len(resp.download_url))
                IN  /\ Len(token) = 36
                    /\ token = resp.file_id
                    /\ FileIdRegexMatch(token)
    /\ (resp.op = "download" /\ resp.file_id \in DOMAIN jobs) => resp.status # 400

C1_Witness ==
    /\ resp.op = "convert"
    /\ resp.status = 200
    /\ resp.free = 2 * (MAX_FILE_SIZE_MB * 1024 * 1024) + 1

\* C2: a POST /convert whose URL does not match the pattern or whose quality
\* is not high, medium or low is answered 400 and schedules no job.
C2_InvalidInputGets400 ==
    (resp.op = "convert" /\ ~resp.inputOK)
        => (resp.status = 400 /\ ~resp.scheduled)

\* C3 as claimed: a valid POST /convert is accepted only when the free space
\* strictly exceeds twice the maximum size; at or below it the answer is 507,
\* no job is scheduled and no file of the request's identifier is ever written.
C3_RejectedAtOrBelowThreshold ==
    /\ (ValidConvert /\ resp.free <= 2 * (MAX_FILE_SIZE_MB * 1024 * 1024))
          => (resp.status = 507 /\ ~resp.scheduled)
    /\ (ValidConvert /\ resp.status = 200)
          => resp.free > 2 * (MAX_FILE_SIZE_MB * 1024 * 1024)
    /\ \A t \in rejected : t \notin DOMAIN jobs /\ FileName(t) \notin DOMAIN files

\* C3 as amended: a valid POST /convert is accepted exactly when the free
\* space is at least twice the maximum size; strictly below it the answer is
\* 507, no job is scheduled and no file of the request's identifier is ever
\* written.
C3_RejectedBelowThreshold ==
    /\ (ValidConvert /\ resp.free < 2 * (MAX_FILE_SIZE_MB * 1024 * 1024))
          => (resp.status = 507 /\ ~resp.scheduled /\ resp.file_id \notin DOMAIN jobs)
    /\ (ValidConvert /\ resp.free >= 2 * (MAX_FILE_SIZE_MB * 1024 * 1024))
          => (resp.status = 200 /\ resp.scheduled /\ resp.file_id \in DOMAIN jobs)
    /\ \A t \in rejected : t \notin DOMAIN jobs /\ FileName(t) \notin DOMAIN files

C3_Witness ==
    /\ ValidConvert
    /\ resp.status = 507
    /\ resp.free = 2 * (MAX_FILE_SIZE_MB * 1024 * 1024) - 1
    /\ resp.file_id \in rejected

\* C4: a GET /download/{token} whose token is not of the identifier's shape
\* is answered 400 before any file-system call.
C4_MalformedTokenGets400 ==
    (resp.op = "download" /\ ~IdentifierShape(resp.file_id))
        => (resp.status = 400 /\ resp.fsops = 0)

\* the canonical path lies within the canonical storage directory
LiesWithin(real_path, folder) == StartsWith(real_path, folder \o <<"/">>)

\* C5: a GET /download/{token} whose candidate file resolves to a canonical
\* path outside the canonical storage directory is answered 403.
C5_PathEscapeGets403 ==
    (/\ resp.op = "download"
     /\ FileIdRegexMatch(resp.file_id)
     /\ ~LiesWithin(RealPath(files, PathJoin(DOWNLOAD_FOLDER, FileName(resp.file_id))),
                    RealPath(files, DOWNLOAD_FOLDER)))
        => resp.status = 403

\* C6: when a sweep has ended, every file that was older than the retention
\* window when the sweep started has been removed, whatever happened to other
\* files during the scan.
C6_SweepRemovesEveryExpiredFile ==
    sweeper.pc = "pause" => \A n \in sweeper.oldAtStart : n \notin DOMAIN files

\* C7: a file the sweeper removed had, when the sweep examined it, an age
\* above the retention window of 24 hours.
C7_SweeperRemovesOnlyExpired ==
    sweeper.removed # NoRemoval => sweeper.removed.age > 24

C7_Witness ==
    /\ sweeper.removed # NoRemoval
    /\ \E n \in DOMAIN files : files[n].age = 24

\* C8: the download handler never modifies storage, and a successful download
\* serves the content that the previous successful download of the same file
\* served, unless the sweeper deleted the file in between.
C8_DownloadsServeSameContent ==
    [][/\ resp'.op = "download" => files' = files
       /\ (/\ resp'.op = "download"
           /\ resp'.status = 200
           /\ lastServed.name = FileName(resp'.file_id))
             => resp'.content = lastServed.content]_vars

\* C9: a job is attempted once and never again; when it has failed no file
\* of its identifier is in storage, and a download of that identifier is
\* answered 404.
C9_FailedJobLeavesNoFile ==
    /\ \A t \in DOMAIN jobs :
          /\ jobs[t].attempts <= 1
          /\ jobs[t].pc # "queued" => jobs[t].attempts = 1
          /\ jobs[t].pc = "failed" => FileName(t) \notin DOMAIN files
    /\ (/\ resp.op = "download"
        /\ resp.file_id \in DOMAIN jobs
        /\ jobs[resp.file_id].pc = "failed")
          => resp.status = 404

C9_Witness ==
    /\ resp.op = "download"
    /\ resp.file_id \in DOMAIN jobs
    /\ jobs[resp.file_id].pc = "failed"
    /\ resp.status = 404

\* C10: the sweeper loop never stops: at every moment, also after a sweep
\* that an error ended, a sweep will be scanning again.
C10_SweeperNeverStops == []<>(sweeper.pc = "scan")

C10_Witness == sweeper.pc = "pause" /\ sweeper.failed

====
